---- MODULE Spec2Model ----
(***************************************************************************)
(* The view-state controller of the learn page (LearnPageComponent) and    *)
(* the server actions it calls, as a state machine.                        *)
(*                                                                         *)
(* Every async handler is cut at its awaits: the part before the await is  *)
(* one action (it puts a call in flight, carrying what the continuation    *)
(* closes over), and each way the awaited call can settle is another.      *)
(* React state setters called in one synchronous run are one step.         *)
(***************************************************************************)
EXTENDS Integers, Sequences, FiniteSets, TLC

\* ------------------------------------------------------------------ bounds
\* Gateway calls that may be in flight together.
MaxPending == 2
\* Handler invocations of one run that reach a gateway.
MaxOps == 2

\* ----------------------------------------------------------------- values
\* activeCourseId's null, and useAuth's "no user".
Null == "null"
NoUser == "none"
TheUser == "u1"
NoToast == "none"

\* Identifiers (opaque strings) of the courses the store may hold at start,
\* the ones the gateway assigns, in the order it assigns them, and one that
\* never names a course.
CourseA == "a"
CourseB == "b"
NewIds == <<"n1", "n2", "n3", "n4", "n5", "n6">>
UnknownId == "zz"

Topics == {"X"}

\* ----------------------------------------------------------- sequences
Range(s) == {s[i] : i \in DOMAIN s}

RemoveAt(s, i) == SubSeq(s, 1, i - 1) \o SubSeq(s, i + 1, Len(s))

ReplaceAt(s, i, x) == [s EXCEPT ![i] = x]

\* ------------------------------------------------------------ the data
\* A Step is a record with stepNumber, title, completed and, when the
\* generation result supplied it, funFact.  A Course is [id, topic, steps]:
\* depth, outline, createdAt and userId are written once at creation and the
\* controller never reads or changes them.

\* { ...step, ...newStepData }: the patch's fields win, the others stay.
SpreadMerge(step, newStepData) ==
    [f \in (DOMAIN step) \cup (DOMAIN newStepData) |->
        IF f \in DOMAIN newStepData THEN newStepData[f] ELSE step[f]]

StepOf(n, done) ==
    [stepNumber |-> n, title |-> "T", content |-> "C", completed |-> done]

StepsA == <<StepOf(1, FALSE), StepOf(2, FALSE)>>
StepsB == <<StepOf(1, FALSE)>>

CourseOf(id, steps) == [id |-> id, topic |-> "X", steps |-> steps]

\* What the durable store may hold for the user when the page opens.
InitStores ==
    { <<CourseOf(CourseA, StepsA), CourseOf(CourseB, StepsB)>> }

\* The partial updates and step numbers the presentation layer passes to
\* handleUpdateStep; step number 3 matches no step of any course.
Patches == { [completed |-> TRUE] }
StepNumbers == {1, 2, 3}

\* What generateFullCourse can answer: an error, or a result whose course is
\* a list of outline steps (possibly empty).
OutlineStep(n) == [step |-> n, title |-> "T", description |-> "D", content |-> "C"]
Outlines ==
    { <<>>,
      <<[step |-> 1, title |-> "T", description |-> "D", content |-> "C",
         funFact |-> "F"], OutlineStep(2)>> }
FlowOutcomes ==
    { [ok |-> FALSE] } \cup { [ok |-> TRUE, course |-> o] : o \in Outlines }

\* What a rejected persistence call throws: an Error with a message, or some
\* other value.
GatewayErrors == { [isError |-> TRUE, message |-> "storage"], [isError |-> FALSE] }

\* --------------------------------------------------------- notifications
Toast(title, description) == [title |-> title, description |-> description]
NoNotification == Toast(NoToast, "")

MsgEmptyCourse == "The AI failed to generate a course for this topic."
MsgUnable == "The AI was unable to generate a course for this topic."
MsgUnknown == "An unknown error occurred."

\* ------------------------------------------------------------- state
VARIABLES
    mounted,         \* useState(false), set by the mount effect
    user,            \* useAuth().user
    courses,         \* useState<Course[]>([])
    activeCourseId,  \* useState<string | null>(null)
    generationState, \* GenerationState.status
    store,           \* the durable records of the user (persistence gateway)
    created,         \* how many identifiers the gateway has assigned
    issued,          \* how many handler invocations have reached a gateway
    pending,         \* the gateway calls in flight, oldest first, each with
                     \* what its continuation closes over
    toast,           \* the notification the last step emitted, or none
    last,            \* history: the call the last step settled, if it did
    loaded,          \* history: a course fetch has succeeded
    serial,          \* history: no gateway call overlapped another so far,
                     \*          and none was issued before the first load
    requested        \* history: the courses whose deletion has been asked for

vars == <<mounted, user, courses, activeCourseId, generationState, store,
          created, issued, pending, toast, last, loaded, serial, requested>>

NoCall == [kind |-> "none"]
NoCourse == [id |-> Null]
Last(op, call) == [op |-> op, call |-> call]
NoLast == Last("none", NoCall)

LocalIds == {courses[i].id : i \in DOMAIN courses}
StoreIds == {store[i].id : i \in DOMAIN store}

\* The identifiers a handler may be called with: the ones of the courses
\* the page shows, and one that names none.
AllIds == LocalIds \cup {UnknownId}

\* Mutant: an identifier that names no course finds the first course.
FindCourseOrFirst(cs, id) ==
    IF \E i \in DOMAIN cs : cs[i].id = id
    THEN cs[CHOOSE i \in DOMAIN cs :
                cs[i].id = id /\ \A j \in 1..(i - 1) : cs[j].id # id]
    ELSE IF cs # <<>> THEN cs[1] ELSE NoCourse

\* courses.find(c => c.id === id) || null
FindCourse(cs, id) ==
    IF \E i \in DOMAIN cs : cs[i].id = id
    THEN cs[CHOOSE i \in DOMAIN cs :
                cs[i].id = id /\ \A j \in 1..(i - 1) : cs[j].id # id]
    ELSE NoCourse

\* Mutant: an identifier that names no course falls back to the first course.
activeCourseOrFirst ==
    IF FindCourse(courses, activeCourseId) = NoCourse /\ courses # <<>>
    THEN courses[1] ELSE FindCourse(courses, activeCourseId)

\* useMemo: the active course is looked up in the current collection.
activeCourse == FindCourse(courses, activeCourseId)

Init ==
    /\ mounted = FALSE
    /\ user = NoUser
    /\ courses = <<>>
    /\ activeCourseId = Null
    /\ generationState = "idle"
    /\ store \in InitStores
    /\ created = 0
    /\ issued = 0
    /\ pending = <<>>
    /\ toast = NoNotification
    /\ last = NoLast
    /\ loaded = FALSE
    /\ serial = TRUE
    /\ requested = {}

\* ----------------------------------------------------- calls in flight
\* Every call carries `solo`: no other gateway call has been in flight at any
\* moment of its life so far (history, read by no action).
FetchCall == [kind |-> "fetch", solo |-> TRUE, served |-> FALSE, result |-> <<>>]

GenerateCall(topic) == [kind |-> "generate", solo |-> TRUE, topic |-> topic]

\* addCourse(newCourseData); `outline` is the gateway result it was built from.
AddCall(call, newCourseData, outline) ==
    [kind |-> "add", solo |-> call.solo, data |-> newCourseData,
     outline |-> outline]

\* The call is a step update of that course.
UpdatesCourse(call, courseId) ==
    call.kind = "update" /\ call.courseId = courseId

\* updateCourse(courseId, { steps: updatedSteps }), with courseToUpdate for the
\* catch block.  History: pre (the collection when the handler was called),
\* pure (the only calls in flight during its life so far were step updates of
\* the same course, and none of them was rejected), okPeers (the step updates
\* of the same course that resolved during its life, each with its own `pure`
\* and whether it was started before this one).
UpdateCall(courseId, stepNumber, newStepData, courseToUpdate, updatedSteps) ==
    [kind |-> "update", solo |-> TRUE, courseId |-> courseId,
     stepNumber |-> stepNumber, newStepData |-> newStepData,
     courseToUpdate |-> courseToUpdate, updatedSteps |-> updatedSteps,
     pre |-> courses,
     pure |-> \A i \in DOMAIN pending : UpdatesCourse(pending[i], courseId),
     okPeers |-> {}]

\* deleteCourseFromDb(courseId), with originalCourses for the catch block.
\* History: pre (the collection when the handler was called), activeBefore
\* (the active identifier then), wasActive (the course was the active
\* selection), quiet (the user has changed the selection at no time since),
\* overtaken (the courses whose deletion, asked for later, has already
\* succeeded).
DeleteCall(courseId) ==
    [kind |-> "delete", solo |-> TRUE, courseId |-> courseId,
     originalCourses |-> courses, pre |-> courses,
     activeBefore |-> activeCourseId,
     wasActive |-> (activeCourseId = courseId),
     quiet |-> TRUE, overtaken |-> {}]

Overlapped(calls, call) ==
    [i \in DOMAIN calls |->
        IF calls[i].kind = "update"
        THEN [calls[i] EXCEPT
                !.solo = FALSE,
                !.pure = @ /\ UpdatesCourse(call, calls[i].courseId)]
        ELSE [calls[i] EXCEPT !.solo = FALSE]]

\* The call joins the ones in flight.
Issue(call) ==
    Append(Overlapped(pending, call), [call EXCEPT !.solo = (pending = <<>>)])

\* History: the call at position i has resolved; the step updates of the same
\* course still in flight note it.
Peered(calls, i) ==
    LET done == calls[i]
        noted == [j \in DOMAIN calls |->
                    IF UpdatesCourse(calls[j], done.courseId)
                    THEN [calls[j] EXCEPT !.okPeers = @ \cup
                            {[stepNumber |-> done.stepNumber,
                              newStepData |-> done.newStepData,
                              pure |-> done.pure, before |-> i < j]}]
                    ELSE calls[j]]
    IN  RemoveAt(noted, i)

\* History: the call at position i was rejected; the step updates still in
\* flight note it.
Tainted(calls, i) ==
    LET noted == [j \in DOMAIN calls |->
                    IF calls[j].kind = "update"
                    THEN [calls[j] EXCEPT !.pure = FALSE] ELSE calls[j]]
    IN  RemoveAt(noted, i)

CanIssue == Len(pending) < MaxPending /\ issued < MaxOps

\* The generation requests in flight.
Generating ==
    Cardinality({i \in DOMAIN pending : pending[i].kind \in {"generate", "add"}})

\* ------------------------------------------------- the persistence gateway
\* getCoursesForUser(uid): the user's records, in the store's order.
getCoursesForUser == store

\* addCourse(data): the record is stored under a fresh identifier.
addCourse(newCourseId, newCourseData) ==
    Append(store, [id |-> newCourseId, topic |-> newCourseData.topic,
                   steps |-> newCourseData.steps])

\* updateCourse(id, { steps }): the stored record's steps are replaced.
updateCourse(id, steps) ==
    [i \in DOMAIN store |->
        IF store[i].id = id THEN [store[i] EXCEPT !.steps = steps] ELSE store[i]]

\* deleteCourse(id): the record is gone.
RECURSIVE WithoutId(_, _)
WithoutId(cs, id) ==
    IF cs = <<>> THEN <<>>
    ELSE IF Head(cs).id = id THEN WithoutId(Tail(cs), id)
         ELSE <<Head(cs)>> \o WithoutId(Tail(cs), id)

deleteCourseFromDb(id) == WithoutId(store, id)

\* ----------------------------------------------------- the server action
\* generateCourseAction: an empty course is thrown inside the try block, so
\* the catch block rethrows it, like a failure of the flow, as MsgUnable.
generateCourseActionTry(outcome) ==
    IF ~outcome.ok THEN [ok |-> FALSE, message |-> "flow error"]
    ELSE IF Len(outcome.course) = 0
         THEN [ok |-> FALSE, message |-> MsgEmptyCourse]
         ELSE [ok |-> TRUE, course |-> outcome.course]

generateCourseAction(outcome) ==
    LET tried == generateCourseActionTry(outcome)
    IN  IF tried.ok THEN tried ELSE [ok |-> FALSE, message |-> MsgUnable]

\* ----------------------------------------------- handleGenerateCourse
\* if (step.funFact): a present, non-empty string.  externalLinks and quiz are
\* an array and an object: truthy whenever present.
Truthy(step, f) ==
    /\ f \in DOMAIN step
    /\ (f = "funFact" => step[f] # "")

NewStep(step) ==
    LET optional == {f \in {"funFact", "externalLinks", "quiz"} : Truthy(step, f)}
    IN  [f \in {"stepNumber", "title", "content", "completed"} \cup optional |->
            CASE f = "stepNumber" -> step.step
              [] f = "completed" -> FALSE
              [] OTHER -> step[f]]

\* result.course.map(step => newStep)
StepsOfResult(course) == [i \in DOMAIN course |-> NewStep(course[i])]

NewCourseData(topic, steps) == [topic |-> topic, steps |-> steps]

\* { id: newCourseId, ...newCourseData }
NewCourse(newCourseId, newCourseData) ==
    [id |-> newCourseId, topic |-> newCourseData.topic,
     steps |-> newCourseData.steps]

\* Mutant: the new course goes to the end.
InsertLast(prev, newCourse) == Append(prev, newCourse)

\* setCourses(prev => [newCourse, ...prev])
InsertFirst(prev, newCourse) == <<newCourse>> \o prev

\* error instanceof Error ? error.message : "An unknown error occurred."
ErrorDescription(error) == IF error.isError THEN error.message ELSE MsgUnknown

\* Mutant: the start does not raise the flag.
StatusOnStartUnset == "idle"
\* Mutant: the success path resets the flag.
StatusOnSuccessIdle == "idle"
\* Mutant: the catch block leaves the flag raised.
StatusOnFailureStuck == "generating"

StatusOnStart == "generating"
StatusOnSuccess == "done"
StatusOnFailure == "idle"

\* The presentation layer offers the start of a generation only while none is
\* running (TopicSelection gets generationState for this).
TopicSelectionAllowsStart == generationState # "generating"

\* --------------------------------------------------------- readiness
\* useEffect(() => { fetchCourses() }, [fetchCourses]): runs when user or
\* mounted changes; fetchCourses calls the gateway only if both are set.
fetchCourses(u, m) == IF u # NoUser /\ m THEN Issue(FetchCall) ELSE pending

\* useEffect(() => setMounted(true), [])
Mount ==
    /\ ~mounted
    /\ mounted' = TRUE
    /\ pending' = fetchCourses(user, TRUE)
    /\ toast' = NoNotification
    /\ last' = NoLast
    /\ UNCHANGED <<requested, user, courses, activeCourseId, generationState,
                   store, created, issued, loaded, serial>>

\* useAuth() delivers the signed-in user.
AuthResolve ==
    /\ user = NoUser
    /\ user' = TheUser
    /\ pending' = fetchCourses(TheUser, mounted)
    /\ toast' = NoNotification
    /\ last' = NoLast
    /\ UNCHANGED <<requested, mounted, courses, activeCourseId,
                   generationState, store, created, issued, loaded, serial>>

\* The gateway reads the user's records at some moment between the call and
\* its answer.
FetchServe(i) ==
    /\ pending[i].kind = "fetch"
    /\ ~pending[i].served
    /\ pending' = ReplaceAt(pending, i,
                     [pending[i] EXCEPT !.served = TRUE,
                                        !.result = getCoursesForUser])
    /\ toast' = NoNotification
    /\ last' = NoLast
    /\ UNCHANGED <<requested, mounted, user, courses, activeCourseId,
                   generationState, store, created, issued, loaded, serial>>

\* setCourses(userCourses)
FetchResolve(i) ==
    /\ pending[i].kind = "fetch"
    /\ pending[i].served
    /\ courses' = pending[i].result
    /\ pending' = RemoveAt(pending, i)
    /\ toast' = NoNotification
    /\ last' = Last("fetchResolve", pending[i])
    /\ loaded' = TRUE
    /\ UNCHANGED <<requested, mounted, user, activeCourseId, generationState,
                   store, created, issued, serial>>

\* Mutant: a failed fetch empties the collection.
FetchRejectClears(i) ==
    /\ pending[i].kind = "fetch"
    /\ pending' = RemoveAt(pending, i)
    /\ courses' = <<>>
    /\ toast' = Toast("Error", "Failed to load courses. Please refresh the page.")
    /\ last' = Last("fetchReject", pending[i])
    /\ UNCHANGED <<requested, mounted, user, activeCourseId, generationState,
                   store, created, issued, loaded, serial>>

\* catch: the collection is left alone, the user is told.
FetchReject(i) ==
    /\ pending[i].kind = "fetch"
    /\ pending' = RemoveAt(pending, i)
    /\ toast' = Toast("Error", "Failed to load courses. Please refresh the page.")
    /\ last' = Last("fetchReject", pending[i])
    /\ UNCHANGED <<requested, mounted, user, courses, activeCourseId,
                   generationState, store, created, issued, loaded, serial>>

\* if (!mounted || loading) / if (!user): the page shows a loader, and the
\* sidebar and the course views, which call the handlers, are not rendered.
\* Before the mount effect the handlers exist and return at once.
Rendered == mounted /\ user # NoUser
Callable == ~mounted \/ Rendered

\* ------------------------------------------------------------ selection
\* History: a selection made while a deletion is in flight.
Disturbed(calls) ==
    [i \in DOMAIN calls |->
        IF calls[i].kind = "delete" THEN [calls[i] EXCEPT !.quiet = FALSE]
        ELSE calls[i]]

\* onSelectCourse={setActiveCourseId}
setActiveCourseId(id) ==
    /\ Rendered
    /\ activeCourseId' = id
    /\ pending' = Disturbed(pending)
    /\ toast' = NoNotification
    /\ last' = NoLast
    /\ UNCHANGED <<requested, mounted, user, courses, generationState, store,
                   created, issued, loaded, serial>>

handleCreateNew ==
    /\ Rendered
    /\ activeCourseId' = Null
    /\ pending' = Disturbed(pending)
    /\ toast' = NoNotification
    /\ last' = NoLast
    /\ UNCHANGED <<requested, mounted, user, courses, generationState, store,
                   created, issued, loaded, serial>>

\* ----------------------------------------------------------- generation
handleGenerateCourse(topic) ==
    /\ Callable
    /\ TopicSelectionAllowsStart
    /\ CanIssue
    /\ IF user = NoUser \/ ~mounted
       THEN /\ toast' = Toast("Authentication Error",
                              "You must be logged in to create a course.")
            /\ last' = NoLast
            /\ UNCHANGED <<generationState, pending, issued, serial>>
       ELSE /\ generationState' = StatusOnStart
            /\ pending' = Issue(GenerateCall(topic))
            /\ issued' = issued + 1
            /\ serial' = (serial /\ loaded /\ pending = <<>>)
            /\ toast' = NoNotification
            /\ last' = NoLast
    /\ UNCHANGED <<requested, mounted, user, courses, activeCourseId, store,
                   created, loaded>>

\* The catch block of handleGenerateCourse.
GenerationFailed(i, description) ==
    /\ toast' = Toast("Error Generating Course", description)
    /\ generationState' = StatusOnFailure
    /\ pending' = RemoveAt(pending, i)

\* generateCourseAction settles: the flow answered `outcome`.
GenerateSettle(i, outcome) ==
    /\ pending[i].kind = "generate"
    /\ LET result == generateCourseAction(outcome)
           steps == StepsOfResult(result.course)
       IN  IF ~result.ok
           THEN GenerationFailed(i, result.message)
           ELSE IF Len(steps) = 0
           THEN GenerationFailed(i, MsgEmptyCourse)
           ELSE /\ pending' = ReplaceAt(pending, i,
                       AddCall(pending[i],
                               NewCourseData(pending[i].topic, steps),
                               result.course))
                /\ toast' = NoNotification
                /\ UNCHANGED generationState
    /\ last' = [op |-> "generateSettle", call |-> pending[i], outcome |-> outcome]
    /\ UNCHANGED <<requested, mounted, user, courses, activeCourseId, store,
                   created, issued, loaded, serial>>

\* addCourse resolves with the new identifier.
AddResolve(i) ==
    /\ pending[i].kind = "add"
    /\ LET newCourseId == NewIds[created + 1]
           newCourse == NewCourse(newCourseId, pending[i].data)
       IN  /\ store' = addCourse(newCourseId, pending[i].data)
           /\ courses' = InsertFirst(courses, newCourse)
           /\ activeCourseId' = newCourse.id
    /\ created' = created + 1
    /\ generationState' = StatusOnSuccess
    /\ pending' = RemoveAt(pending, i)
    /\ toast' = NoNotification
    /\ last' = Last("addResolve", pending[i])
    /\ UNCHANGED <<requested, mounted, user, issued, loaded, serial>>

AddReject(i, error) ==
    /\ pending[i].kind = "add"
    /\ GenerationFailed(i, ErrorDescription(error))
    /\ last' = Last("addReject", pending[i])
    /\ UNCHANGED <<requested, mounted, user, courses, activeCourseId, store,
                   created, issued, loaded, serial>>

\* ---------------------------------------------------------- step update
\* Mutant: every step is merged, whatever its number.
UpdatedStepsAll(steps, stepNumber, newStepData) ==
    [i \in DOMAIN steps |-> SpreadMerge(steps[i], newStepData)]

\* Mutant: only the step that was asked for is kept.
UpdatedStepsOnlyThat(steps, stepNumber, newStepData) ==
    LET Hit(step) == step.stepNumber = stepNumber
        hits == SelectSeq(steps, Hit)
    IN  [i \in DOMAIN hits |-> SpreadMerge(hits[i], newStepData)]

\* courseToUpdate.steps.map(step =>
\*     step.stepNumber === stepNumber ? { ...step, ...newStepData } : step)
UpdatedSteps(steps, stepNumber, newStepData) ==
    [i \in DOMAIN steps |->
        IF steps[i].stepNumber = stepNumber
        THEN SpreadMerge(steps[i], newStepData) ELSE steps[i]]

\* Mutant: the collection is not touched.
ReplaceCourseSkipped(prevCourses, courseId, course) == prevCourses

\* prevCourses.map(c => c.id === courseId ? course : c)
ReplaceCourse(prevCourses, courseId, course) ==
    [i \in DOMAIN prevCourses |->
        IF prevCourses[i].id = courseId THEN course ELSE prevCourses[i]]

\* Mutant: the catch block forgets to revert.
RevertCourseForgotten(prevCourses, call) == prevCourses

\* Mutant: the catch block restores the whole collection as it was.
RevertCourseWholeSnapshot(prevCourses, call) == call.pre

\* catch: "Revert UI on failure"
RevertCourse(prevCourses, call) ==
    ReplaceCourse(prevCourses, call.courseId, call.courseToUpdate)

handleUpdateStep(courseId, stepNumber, newStepData) ==
    LET courseToUpdate == FindCourse(courses, courseId)
        updatedSteps ==
            UpdatedSteps(courseToUpdate.steps, stepNumber, newStepData)
        updatedCourse == [courseToUpdate EXCEPT !.steps = updatedSteps]
    IN  /\ Callable
        /\ IF ~mounted \/ courseToUpdate = NoCourse
           THEN /\ last' = NoLast
                /\ UNCHANGED <<courses, pending, issued, serial>>
           ELSE /\ CanIssue
                /\ issued' = issued + 1
                /\ courses' = ReplaceCourse(courses, courseId, updatedCourse)
                /\ pending' = Issue(UpdateCall(courseId, stepNumber, newStepData,
                                               courseToUpdate, updatedSteps))
                /\ serial' = (serial /\ loaded /\ pending = <<>>)
                /\ last' = NoLast
        /\ toast' = NoNotification
        /\ UNCHANGED <<requested, mounted, user, activeCourseId,
                       generationState, store, created, loaded>>

\* updateCourse resolves: the record exists and now holds the steps sent.
UpdateResolve(i) ==
    /\ pending[i].kind = "update"
    /\ pending[i].courseId \in StoreIds
    /\ store' = updateCourse(pending[i].courseId, pending[i].updatedSteps)
    /\ pending' = Peered(pending, i)
    /\ toast' = NoNotification
    /\ last' = Last("updateResolve", pending[i])
    /\ UNCHANGED <<requested, mounted, user, courses, activeCourseId,
                   generationState, created, issued, loaded, serial>>

UpdateReject(i) ==
    /\ pending[i].kind = "update"
    /\ toast' = Toast("Sync Error", "Failed to save changes.")
    /\ courses' = RevertCourse(courses, pending[i])
    /\ pending' = Tainted(pending, i)
    /\ last' = Last("updateReject", pending[i])
    /\ UNCHANGED <<requested, mounted, user, activeCourseId, generationState,
                   store, created, issued, loaded, serial>>

\* ------------------------------------------------------------- deletion
\* Mutant: the course is not removed before the remote call.
RemoveCourseLate(prev, courseId) == prev

\* prev.filter(c => c.id !== courseId)
RemoveCourse(prev, courseId) == WithoutId(prev, courseId)

\* if (activeCourseId === courseId) setActiveCourseId(null)
ActiveAfterDelete(courseId) ==
    IF activeCourseId = courseId THEN Null ELSE activeCourseId

\* Mutant: the catch block puts back only the deleted course, at the end.
RestoreCoursesReinsert(prev, call) ==
    IF call.courseId \in {call.originalCourses[i].id : i \in DOMAIN call.originalCourses}
    THEN Append(prev, FindCourse(call.originalCourses, call.courseId))
    ELSE prev

\* Mutant: the catch block restores nothing.
RestoreCoursesForgotten(prev, call) == prev

\* catch: setCourses(originalCourses)
RestoreCourses(prev, call) == call.originalCourses

handleDeleteCourse(courseId) ==
    /\ Callable
    /\ IF ~mounted
       THEN /\ last' = NoLast
            /\ UNCHANGED <<courses, activeCourseId, pending, issued, serial,
                           requested>>
       ELSE /\ CanIssue
            /\ issued' = issued + 1
            /\ requested' = requested \cup {courseId}
            /\ courses' = RemoveCourse(courses, courseId)
            /\ activeCourseId' = ActiveAfterDelete(courseId)
            /\ pending' = Issue(DeleteCall(courseId))
            /\ serial' = (serial /\ loaded /\ pending = <<>>)
            /\ last' = NoLast
    /\ toast' = NoNotification
    /\ UNCHANGED <<mounted, user, generationState, store, created, loaded>>

\* History: the deletions asked for before call i and still in flight have
\* been overtaken by it.
Overtake(calls, i) ==
    [j \in DOMAIN calls |->
        IF j < i /\ calls[j].kind = "delete"
        THEN [calls[j] EXCEPT !.overtaken = @ \cup {calls[i].courseId}]
        ELSE calls[j]]

DeleteResolve(i) ==
    /\ pending[i].kind = "delete"
    /\ store' = deleteCourseFromDb(pending[i].courseId)
    /\ pending' = RemoveAt(Overtake(pending, i), i)
    /\ toast' = NoNotification
    /\ last' = Last("deleteResolve", pending[i])
    /\ UNCHANGED <<requested, mounted, user, courses, activeCourseId,
                   generationState, created, issued, loaded, serial>>

\* Mutant: the rollback also selects the course again if it was selected.
DeleteRejectReselects(i) ==
    /\ pending[i].kind = "delete"
    /\ toast' = Toast("Deletion Failed", "Could not delete course from database.")
    /\ courses' = RestoreCourses(courses, pending[i])
    /\ activeCourseId' = IF pending[i].wasActive THEN pending[i].courseId
                                                ELSE activeCourseId
    /\ pending' = RemoveAt(pending, i)
    /\ last' = Last("deleteReject", pending[i])
    /\ UNCHANGED <<requested, mounted, user, generationState, store, created,
                   issued, loaded, serial>>

DeleteReject(i) ==
    /\ pending[i].kind = "delete"
    /\ toast' = Toast("Deletion Failed", "Could not delete course from database.")
    /\ courses' = RestoreCourses(courses, pending[i])
    /\ pending' = RemoveAt(pending, i)
    /\ last' = Last("deleteReject", pending[i])
    /\ UNCHANGED <<requested, mounted, user, activeCourseId, generationState,
                   store, created, issued, loaded, serial>>

\* --------------------------------------------------------- handleAskQuestion
Questions == {"Q"}

\* What the question flow does: it answers, or throws an Error, or throws
\* some other value.
AskOutcomes ==
    { [ok |-> TRUE, answer |-> "A"],
      [ok |-> FALSE, isError |-> TRUE, message |-> "flow"],
      [ok |-> FALSE, isError |-> FALSE] }

MsgNotLoaded == "Please wait for the page to fully load."
MsgSorry == "Sorry, I couldn't process your question. Please try again."
MsgAskUnknown == "An unknown error occurred while getting the answer."

\* What a call of the handler gives its caller: a value, or an exception.
Returns(value) == [thrown |-> FALSE, value |-> value]
Throws(message) == [thrown |-> TRUE, message |-> message]

\* askQuestionAction: the flow's answer, or an Error with the flow's message,
\* or the "unknown error" Error.
askQuestionAction(outcome) ==
    IF outcome.ok THEN Returns([answer |-> outcome.answer])
    ELSE IF outcome.isError THEN Throws(outcome.message)
    ELSE Throws(MsgAskUnknown)

\* { topic: course.topic, stepTitle: step.title,
\*   stepContent: step.content || '', question }
AskInput(course, step, question) ==
    [topic |-> course.topic, stepTitle |-> step.title,
     stepContent |-> IF "content" \in DOMAIN step THEN step.content ELSE "",
     question |-> question]

AskCall(course, step, question) ==
    [kind |-> "ask", solo |-> TRUE, input |-> AskInput(course, step, question)]

\* Mutant: the catch block lets the error through.
AskCatchRethrows(error) == error

\* catch: the fixed apology is returned.
AskCatch(error) == Returns([answer |-> MsgSorry])

\* The courses a caller can pass: the ones shown, or any course object before
\* the page has mounted.
AskableCourses == Range(courses) \cup {CourseOf(CourseA, StepsA)}

handleAskQuestion(course, step, question) ==
    /\ Callable
    /\ IF ~mounted
       THEN /\ last' = [op |-> "askReturn", call |-> NoCall,
                        returned |-> Returns([answer |-> MsgNotLoaded])]
            /\ UNCHANGED <<pending, issued>>
       ELSE /\ CanIssue
            /\ issued' = issued + 1
            /\ pending' = Issue(AskCall(course, step, question))
            /\ last' = NoLast
    /\ toast' = NoNotification
    /\ UNCHANGED <<requested, mounted, user, courses, activeCourseId,
                   generationState, store, created, loaded, serial>>

\* askQuestionAction settles: the flow did `outcome`.
AskSettle(i, outcome) ==
    /\ pending[i].kind = "ask"
    /\ LET result == askQuestionAction(outcome)
       IN  IF ~result.thrown
           THEN /\ toast' = NoNotification
                /\ last' = [op |-> "askReturn", call |-> pending[i],
                            outcome |-> outcome, returned |-> result]
           ELSE /\ toast' = Toast("Error Getting Answer",
                      "Could not get an answer for this question. Please try again.")
                /\ last' = [op |-> "askReturn", call |-> pending[i],
                            outcome |-> outcome, returned |-> AskCatch(result)]
    /\ pending' = RemoveAt(pending, i)
    /\ UNCHANGED <<requested, mounted, user, courses, activeCourseId,
                   generationState, store, created, issued, loaded, serial>>

\* ------------------------------------------------------ the state machine
Next ==
    \/ Mount
    \/ AuthResolve
    \/ \E i \in DOMAIN pending : FetchServe(i)
    \/ \E i \in DOMAIN pending : FetchResolve(i)
    \/ \E i \in DOMAIN pending : FetchReject(i)
    \/ \E id \in AllIds : setActiveCourseId(id)
    \/ handleCreateNew
    \/ \E topic \in Topics : handleGenerateCourse(topic)
    \/ \E i \in DOMAIN pending, outcome \in FlowOutcomes : GenerateSettle(i, outcome)
    \/ \E i \in DOMAIN pending : AddResolve(i)
    \/ \E i \in DOMAIN pending, error \in GatewayErrors : AddReject(i, error)
    \/ \E id \in AllIds, n \in StepNumbers, patch \in Patches :
          handleUpdateStep(id, n, patch)
    \/ \E i \in DOMAIN pending : UpdateResolve(i)
    \/ \E i \in DOMAIN pending : UpdateReject(i)
    \/ \E id \in AllIds : handleDeleteCourse(id)
    \/ \E i \in DOMAIN pending : DeleteResolve(i)
    \/ \E i \in DOMAIN pending : DeleteReject(i)
    \/ \E course \in AskableCourses, question \in Questions :
          \E k \in DOMAIN course.steps :
             handleAskQuestion(course, course.steps[k], question)
    \/ \E i \in DOMAIN pending, outcome \in AskOutcomes : AskSettle(i, outcome)

Spec == Init /\ [][Next]_vars

\* ------------------------------------------- generation, any outline
\* The outlines the generation flow can answer with: the page copies `step`
\* from each entry, and nothing constrains the numbers the flow writes there.
MaxOutlineLen == 2

OutlineEntries ==
    { OutlineStep(n) : n \in StepNumbers }
        \cup { [step |-> n, title |-> "T", description |-> "D",
                content |-> "C", funFact |-> f] :
                    n \in StepNumbers, f \in {"", "F"} }

RECURSIVE OutlinesOfLen(_)
OutlinesOfLen(n) ==
    IF n = 0 THEN { <<>> }
    ELSE { Append(o, e) : o \in OutlinesOfLen(n - 1), e \in OutlineEntries }

AnyOutlines == UNION { OutlinesOfLen(n) : n \in 0..MaxOutlineLen }

AnyFlowOutcomes ==
    { [ok |-> FALSE] } \cup { [ok |-> TRUE, course |-> o] : o \in AnyOutlines }

\* The page is ready, the user's courses are loaded, and handleGenerateCourse
\* has just been called: generateCourseAction is in flight.
InitGeneration ==
    /\ mounted = TRUE
    /\ user = TheUser
    /\ store \in InitStores
    /\ courses = store
    /\ activeCourseId = Null
    /\ generationState = StatusOnStart
    /\ created = 0
    /\ issued = 1
    /\ pending = <<GenerateCall("X")>>
    /\ toast = NoNotification
    /\ last = NoLast
    /\ loaded = TRUE
    /\ serial = TRUE
    /\ requested = {}

NextGeneration ==
    \/ \E i \in DOMAIN pending, outcome \in AnyFlowOutcomes :
          GenerateSettle(i, outcome)
    \/ \E i \in DOMAIN pending : AddResolve(i)
    \/ \E i \in DOMAIN pending, error \in GatewayErrors : AddReject(i, error)

SpecGeneration == InitGeneration /\ [][NextGeneration]_vars

\* ================================================================ claims

\* C1: a handleUpdateStep that no other gateway call overlaps and whose
\* updateCourse rejects leaves the collection exactly as it was when the
\* handler was called, and has emitted the Sync Error notification.
C1_UpdateRejectRestores ==
    (last.op = "updateReject" /\ last.call.solo) =>
        /\ courses = last.call.pre
        /\ toast.title = "Sync Error"

\* C1 witness: a rejected update that had changed a step has been rolled back.
C1_Witness ==
    /\ last.op = "updateReject"
    /\ last.call.solo
    /\ last.call.updatedSteps # last.call.courseToUpdate.steps
    /\ Len(courses) = 2

\* C2: a handleDeleteCourse that no other gateway call overlaps and whose
\* deleteCourse rejects leaves the collection equal to the one before the
\* deletion, order included, and has emitted a notification.
C2_DeleteRejectRestores ==
    (last.op = "deleteReject" /\ last.call.solo) =>
        /\ courses = last.call.pre
        /\ toast.title = "Deletion Failed"

\* C2 witness: [A, B], delete A rejected, gives [A, B].
C2_Witness ==
    /\ last.op = "deleteReject"
    /\ last.call.solo
    /\ last.call.courseId = CourseA
    /\ Len(courses) = 2
    /\ courses[1].id = CourseA
    /\ courses[2].id = CourseB

\* C3: right after a generation request has failed (the flow errors, the flow
\* returns no steps, or addCourse rejects) the status is idle and the error
\* notification is out; no addCourse call is ever made with an empty result.
C3_FailedGenerationIdle ==
    /\ (last.op = "generateSettle"
            /\ (~last.outcome.ok \/ Len(last.outcome.course) = 0)) =>
          (generationState = "idle" /\ toast.title = "Error Generating Course")
    /\ last.op = "addReject" =>
          (generationState = "idle" /\ toast.title = "Error Generating Course")
    /\ \A i \in DOMAIN pending :
          pending[i].kind = "add" =>
              (Len(pending[i].outline) > 0 /\ Len(pending[i].data.steps) > 0)
    /\ \A i \in DOMAIN store : Len(store[i].steps) > 0

\* C3 witness: the flow has just answered with an empty course.
C3_Witness ==
    /\ last.op = "generateSettle"
    /\ last.outcome.ok
    /\ Len(last.outcome.course) = 0
    /\ store # <<>>

\* C4: when addCourse has just resolved, the new course carries the
\* identifier the gateway assigned and is already stored, it is the first
\* element of the collection and the active selection, and the status is
\* done; the status turns done in no other step; and no course with a
\* gateway-assigned identifier is in the collection before the gateway has
\* assigned it.
C4_InsertedFirstThenDone ==
    /\ [](last.op = "addResolve" =>
            /\ generationState = "done"
            /\ courses # <<>>
            /\ courses[1].id = NewIds[created]
            /\ courses[1].steps = last.call.data.steps
            /\ courses[1].id \in StoreIds
            /\ activeCourseId = courses[1].id
            /\ activeCourse = courses[1])
    /\ [](\A k \in DOMAIN NewIds : NewIds[k] \in LocalIds => k <= created)
    /\ [][(generationState' = "done" /\ generationState # "done") =>
            /\ created' = created + 1
            /\ courses' # <<>>
            /\ courses'[1].id = NewIds[created']
            /\ activeCourseId' = NewIds[created']]_vars

\* C4 witness: a generated course stands in front of the older ones.
C4_Witness ==
    /\ last.op = "addResolve"
    /\ Len(courses) = 3
    /\ generationState = "done"

\* C5: the status only moves idle -> generating or done -> generating (a
\* generation starts), generating -> done (addCourse resolved) and
\* generating -> idle (the request failed).
C5_StatusTransitions ==
    [][generationState' # generationState =>
         \/ /\ generationState' = "generating"
            /\ Generating' = Generating + 1
         \/ /\ generationState = "generating"
            /\ generationState' = "done"
            /\ created' = created + 1
         \/ /\ generationState = "generating"
            /\ generationState' = "idle"
            /\ toast'.title = "Error Generating Course"]_vars

\* C5 witness: a second generation has failed after a first one succeeded.
C5_Witness ==
    /\ created = 1
    /\ generationState = "idle"
    /\ toast.title = "Error Generating Course"

\* C6: at most one generation request is in flight, and while one is the
\* status is generating.
C6_OneGenerationInFlight ==
    /\ Generating <= 1
    /\ Generating = 1 => generationState = "generating"

\* C6 witness: a generation is in flight beside another call.
C6_Witness ==
    /\ Generating = 1
    /\ Len(pending) = 2
    /\ generationState = "generating"

\* new is old merged with patch.
IsMerge(new, old, patch) ==
    /\ DOMAIN new = (DOMAIN old) \cup (DOMAIN patch)
    /\ \A f \in DOMAIN new :
          new[f] = IF f \in DOMAIN patch THEN patch[f] ELSE old[f]

\* The collection is `pre` with exactly the steps numbered call.stepNumber of
\* the course call.courseId merged with the patch.
OnlyThatStepMerged(call) ==
    /\ Len(courses) = Len(call.pre)
    /\ \A i \in DOMAIN courses :
          IF call.pre[i].id # call.courseId
          THEN courses[i] = call.pre[i]
          ELSE /\ courses[i].id = call.pre[i].id
               /\ courses[i].topic = call.pre[i].topic
               /\ Len(courses[i].steps) = Len(call.pre[i].steps)
               /\ \A j \in DOMAIN courses[i].steps :
                     IF call.pre[i].steps[j].stepNumber = call.stepNumber
                     THEN IsMerge(courses[i].steps[j], call.pre[i].steps[j],
                                  call.newStepData)
                     ELSE courses[i].steps[j] = call.pre[i].steps[j]

\* C7: for a handleUpdateStep that no other gateway call overlaps, while
\* updateCourse is in flight and right after it has resolved, the collection
\* is the one before the call with exactly the step of that number merged
\* with the patch, and no notification is out.
C7_OptimisticMerge ==
    /\ \A i \in DOMAIN pending :
          (pending[i].kind = "update" /\ pending[i].solo) =>
              (OnlyThatStepMerged(pending[i]) /\ toast = NoNotification)
    /\ (last.op = "updateResolve" /\ last.call.solo) =>
          (OnlyThatStepMerged(last.call) /\ toast = NoNotification)

\* C7 witness: steps [{1,false},{2,false}], {completed: true} on step 2,
\* resolved: [{1,false},{2,true}].
C7_Witness ==
    /\ last.op = "updateResolve"
    /\ last.call.solo
    /\ last.call.courseId = CourseA
    /\ last.call.stepNumber = 2
    /\ last.call.courseToUpdate.steps = StepsA
    /\ FindCourse(courses, CourseA).steps = <<StepOf(1, FALSE), StepOf(2, TRUE)>>

IdsOf(cs) == {cs[i].id : i \in DOMAIN cs}

\* cs without the course id, the others in their order.
RECURSIVE Others(_, _)
Others(cs, id) ==
    IF cs = <<>> THEN <<>>
    ELSE (IF Head(cs).id = id THEN <<>> ELSE <<Head(cs)>>) \o Others(Tail(cs), id)

\* C8 as stated: in every state in which a deleteCourse call is in flight,
\* its course is absent from the collection and is not the active course.
C8_AbsentWhilePending ==
    \A i \in DOMAIN pending :
        pending[i].kind = "delete" =>
            /\ pending[i].courseId \notin LocalIds
            /\ pending[i].wasActive => activeCourse.id # pending[i].courseId

\* C8 amended: for a handleDeleteCourse that no other gateway call overlaps,
\* in every state in which its deleteCourse call is in flight the course is
\* absent from the collection and, if it was the active selection and the
\* user has selected nothing since, the active identifier is null; right
\* after the call has resolved the course is absent, locally and in the
\* store, and the other courses are in the order they had.
C8_AbsentWhilePendingAlone ==
    /\ \A i \in DOMAIN pending :
          (pending[i].kind = "delete" /\ pending[i].solo) =>
              /\ pending[i].courseId \notin LocalIds
              /\ courses = Others(pending[i].pre, pending[i].courseId)
              /\ (pending[i].wasActive /\ pending[i].quiet) =>
                    activeCourseId = Null
    /\ (last.op = "deleteResolve" /\ last.call.solo) =>
          /\ last.call.courseId \notin LocalIds
          /\ last.call.courseId \notin StoreIds
          /\ courses = Others(last.call.pre, last.call.courseId)

\* C8 witness: the deletion of the active course, the first of two, is in
\* flight alone.
C8_Witness ==
    /\ Len(pending) = 1
    /\ pending[1].kind = "delete"
    /\ pending[1].solo
    /\ pending[1].wasActive
    /\ pending[1].quiet
    /\ pending[1].courseId = CourseA
    /\ Len(pending[1].pre) = 2
    /\ Len(courses) = 1

\* The collection and the store hold the same courses: the same identifiers,
\* each once, with the same steps.
Converged ==
    /\ Range(courses) = Range(store)
    /\ Len(courses) = Cardinality(LocalIds)
    /\ Len(store) = Cardinality(StoreIds)

\* C9: with no call in flight, after a successful load followed by handler
\* calls none of which overlapped another gateway call, the collection holds
\* the courses the store holds.
C9_SerializedConverges ==
    (serial /\ loaded /\ pending = <<>>) => Converged

\* C9 witness: a generation and a rejected deletion, one after the other.
C9_Witness ==
    /\ serial
    /\ loaded
    /\ pending = <<>>
    /\ created = 1
    /\ issued = 2
    /\ last.op = "deleteReject"
    /\ Len(courses) = 3

\* C10: when the rollback of a rejected deletion restores a snapshot holding
\* a course whose deletion, asked for later, has already succeeded, that
\* course is back in the collection and is not in the store.
C10_RollbackClobbers ==
    last.op = "deleteReject" =>
        \A b \in last.call.overtaken \cap IdsOf(last.call.originalCourses) :
            b \in LocalIds /\ b \notin StoreIds

\* C10 witness: delete A in flight, delete B succeeds, delete A fails: no
\* call is in flight and the collection differs from the store.
C10_Witness ==
    /\ last.op = "deleteReject"
    /\ last.call.courseId = CourseA
    /\ CourseB \in last.call.overtaken
    /\ pending = <<>>
    /\ CourseB \in LocalIds
    /\ CourseB \notin StoreIds
    /\ ~Converged

\* ---------------------------------------------------------------- C11
\* C11: when the generation gateway answers with an outline of zero steps,
\* the description shown to the user differs from the one shown when the
\* gateway call itself fails.
C11_EmptyOutlineMessageDistinct ==
    (last.op = "generateSettle" /\ last.outcome.ok
        /\ Len(last.outcome.course) = 0) =>
       toast.description # generateCourseAction([ok |-> FALSE]).message

\* ---------------------------------------------------------------- C12
\* The active identifier names no course of the local collection.
Dangling == activeCourseId # Null /\ activeCourseId \notin LocalIds

\* C12: in every state the active course is the course of the local
\* collection whose identifier is the active identifier, and it is "no active
\* course" whenever that identifier is null or names no course of the
\* collection; with such a dangling identifier the page still takes a
\* selection and a "create new".
C12_ActiveCourseDerived ==
    /\ (activeCourseId = Null \/ activeCourseId \notin LocalIds) =>
          activeCourse = NoCourse
    /\ activeCourseId \in LocalIds =>
          /\ activeCourse # NoCourse
          /\ \E i \in DOMAIN courses : activeCourse = courses[i]
          /\ activeCourse.id = activeCourseId
    /\ (Dangling /\ Rendered) =>
          /\ ENABLED handleCreateNew
          /\ \A id \in AllIds : ENABLED setActiveCourseId(id)

\* A course made by generation was selected and a later fetch result or rollback
\* took it out of the collection: the identifier dangles, other courses are listed.
C12_Witness ==
    /\ Dangling
    /\ activeCourseId # UnknownId
    /\ courses # <<>>
    /\ activeCourse = NoCourse

\* ---------------------------------------------------------------- C13
\* C13: the step in which a course fetch fails leaves the collection, the
\* active selection and the generation status as they were and shows a
\* notification; the step in which it succeeds replaces the collection by the
\* list the gateway returned, in the gateway's order, and leaves the other two
\* alone.
C13_FetchSettles ==
    /\ [][ /\ last'.op = "fetchReject" =>
                /\ courses' = courses
                /\ activeCourseId' = activeCourseId
                /\ generationState' = generationState
                /\ toast'.title = "Error"
           /\ last'.op = "fetchResolve" =>
                /\ courses' = last'.call.result
                /\ activeCourseId' = activeCourseId
                /\ generationState' = generationState
                /\ toast' = NoNotification ]_vars

\* The fetch failed after a generation, started while it was in flight, had
\* put its course into the collection and selected it.
C13_Witness ==
    /\ last.op = "fetchReject"
    /\ courses # <<>>
    /\ activeCourseId \in LocalIds
    /\ generationState = "done"
    /\ toast.title = "Error"

\* ---------------------------------------------------------------- C14
\* The step starts a call of the question flow.
AskStarts ==
    /\ Len(pending') = Len(pending) + 1
    /\ pending'[Len(pending')].kind = "ask"

\* C14: every call of handleAskQuestion gives its caller an answer and never
\* an exception: the flow's answer, with no notification, when the flow
\* answers; the fixed apology, with the "Error Getting Answer" notification,
\* when it fails; the fixed "please wait" text, with no call of the flow, when
\* the page has not mounted.  No step of the handler changes the collection,
\* the active selection or the generation status.
C14_AskAlwaysAnswers ==
    /\ [](last.op = "askReturn" =>
            /\ ~last.returned.thrown
            /\ IF last.call = NoCall
               THEN /\ last.returned.value.answer = MsgNotLoaded
                    /\ toast = NoNotification
               ELSE IF last.outcome.ok
               THEN /\ last.returned.value.answer = last.outcome.answer
                    /\ toast = NoNotification
               ELSE /\ last.returned.value.answer = MsgSorry
                    /\ toast.title = "Error Getting Answer")
    /\ [][ /\ (last'.op = "askReturn" \/ AskStarts) =>
                UNCHANGED <<courses, activeCourseId, generationState>>
           /\ (last'.op = "askReturn" /\ last'.call = NoCall) =>
                (~mounted /\ pending' = pending) ]_vars

\* The flow failed for a question about a listed course: the apology was
\* returned and the user was told.
C14_Witness ==
    /\ last.op = "askReturn"
    /\ last.call # NoCall
    /\ ~last.outcome.ok
    /\ last.returned = Returns([answer |-> MsgSorry])
    /\ toast.title = "Error Getting Answer"
    /\ courses # <<>>

\* ---------------------------------------------------------------- C15
\* The step the page builds from an outline entry, less the optional fields.
BuiltFrom(step, entry) ==
    /\ step.stepNumber = entry.step
    /\ step.title = entry.title
    /\ step.content = entry.content
    /\ step.completed = FALSE

\* C15: when a generation has succeeded, the new course has as many steps as
\* the outline the gateway returned has entries, its i-th step is built from
\* the i-th entry with completed = false, and its step numbers are strictly
\* increasing.
C15_StepsFollowOutline ==
    last.op = "addResolve" =>
        LET steps == courses[1].steps
            outline == last.call.outline
        IN  /\ Len(steps) = Len(outline)
            /\ \A i \in DOMAIN steps : BuiltFrom(steps[i], outline[i])
            /\ \A i, j \in DOMAIN steps :
                  i < j => steps[i].stepNumber < steps[j].stepNumber

\* ---------------------------------------------------------------- C16
Generated(id) == id \in Range(NewIds)

\* C16: a course made by generation has at least one step wherever it
\* appears: in the local collection, in the addCourse call that creates it and
\* in every updateCourse call sent for it; every updateCourse call sends as
\* many steps as the course had, and no step of the page, a step update and
\* the rollbacks included, changes the number of steps of a listed course.
C16_NeverWithoutSteps ==
    /\ [](/\ \A i \in DOMAIN courses :
                Generated(courses[i].id) => Len(courses[i].steps) >= 1
          /\ \A i \in DOMAIN pending :
                /\ pending[i].kind = "add" =>
                      Len(pending[i].data.steps) >= 1
                /\ pending[i].kind = "update" =>
                      /\ Len(pending[i].updatedSteps) =
                             Len(pending[i].courseToUpdate.steps)
                      /\ Generated(pending[i].courseId) =>
                             Len(pending[i].updatedSteps) >= 1)
    /\ [][ \A i \in DOMAIN courses, j \in DOMAIN courses' :
              courses[i].id = courses'[j].id =>
                  Len(courses'[j].steps) = Len(courses[i].steps) ]_vars

\* A step update of a generated course was rejected and rolled back; the
\* course is listed with the steps it was generated with.
C16_Witness ==
    /\ last.op = "updateReject"
    /\ Generated(last.call.courseId)
    /\ \E i \in DOMAIN courses :
          /\ courses[i].id = last.call.courseId
          /\ Len(courses[i].steps) = 2

\* ---------------------------------------------------------------- C17
\* The step number of the call names no step of the course it found.
Unmatched(call) ==
    \A i \in DOMAIN call.courseToUpdate.steps :
        call.courseToUpdate.steps[i].stepNumber # call.stepNumber

\* The step starts an updateCourse call.
UpdateStarts ==
    /\ Len(pending') = Len(pending) + 1
    /\ pending'[Len(pending')].kind = "update"

\* C17: a handleUpdateStep whose step number names no step of the course
\* sends the course's steps as they are and, when no other call overlaps it,
\* leaves the whole collection as it was, while the call is pending and after
\* it has resolved, with no notification; a handleUpdateStep for an identifier
\* that names no listed course changes nothing and starts no updateCourse
\* call: updateCourse calls start only for listed courses.
C17_UnknownStepOrCourseNoOp ==
    /\ [](/\ \A i \in DOMAIN pending :
                (pending[i].kind = "update" /\ Unmatched(pending[i])) =>
                    /\ pending[i].updatedSteps = pending[i].courseToUpdate.steps
                    /\ pending[i].solo => courses = pending[i].pre
          /\ (last.op = "updateResolve" /\ Unmatched(last.call)) =>
                /\ toast = NoNotification
                /\ last.call.solo => courses = last.call.pre)
    /\ [][ /\ \A n \in StepNumbers, patch \in Patches :
                (mounted /\ UnknownId \notin LocalIds
                    /\ handleUpdateStep(UnknownId, n, patch)) =>
                    UNCHANGED <<courses, pending, store, activeCourseId,
                                generationState, issued>>
           /\ UpdateStarts =>
                pending'[Len(pending')].courseId \in LocalIds ]_vars

\* A step update naming step 3 of a listed course, overlapped by no other
\* call, has been stored: nothing changed and nothing was shown.
C17_Witness ==
    /\ last.op = "updateResolve"
    /\ Unmatched(last.call)
    /\ last.call.solo
    /\ last.call.courseId \in LocalIds
    /\ courses = last.call.pre
    /\ toast = NoNotification

\* ---------------------------------------------------------------- C18
\* The steps with the patch's step number carry the patch's fields.
HasPatch(steps, patch) ==
    \A i \in DOMAIN steps :
        steps[i].stepNumber = patch.stepNumber =>
            \A f \in DOMAIN patch.newStepData :
                steps[i][f] = patch.newStepData[f]

\* A step update has just resolved, as the last of two or more that
\* overlapped one another on different steps of one course and all succeeded,
\* with no other call in flight meanwhile.
OverlappingUpdatesDone ==
    /\ last.op = "updateResolve"
    /\ pending = <<>>
    /\ last.call.pure
    /\ last.call.okPeers # {}
    /\ \A p \in last.call.okPeers :
          p.pure /\ p.stepNumber # last.call.stepNumber

\* C18 as claimed: once overlapping step updates of different steps of one
\* course have all succeeded, the local steps of the course hold every patch
\* and equal the steps in the store.
C18_OverlappingUpdatesConverge ==
    OverlappingUpdatesDone =>
        LET local == FindCourse(courses, last.call.courseId)
            stored == FindCourse(store, last.call.courseId)
        IN  /\ local # NoCourse
            /\ HasPatch(local.steps, last.call)
            /\ \A p \in last.call.okPeers : HasPatch(local.steps, p)
            /\ stored.steps = local.steps

\* C18, amended: once overlapping step updates of different steps of one
\* course have all succeeded, the local steps of the course hold every patch;
\* the store holds the steps sent by the call that resolved last, which equal
\* the local steps when that call was also the last one started.
C18_OverlappingUpdatesLastWriterWins ==
    OverlappingUpdatesDone =>
        LET local == FindCourse(courses, last.call.courseId)
            stored == FindCourse(store, last.call.courseId)
        IN  /\ local # NoCourse
            /\ HasPatch(local.steps, last.call)
            /\ \A p \in last.call.okPeers : HasPatch(local.steps, p)
            /\ stored.steps = last.call.updatedSteps
            /\ (\A p \in last.call.okPeers : p.before) =>
                  stored.steps = local.steps

\* Step 1 and step 2 of a course were updated by overlapping calls and the
\* call started first resolved last: the store lacks the later patch.
C18_Witness ==
    /\ OverlappingUpdatesDone
    /\ \E p \in last.call.okPeers : ~p.before
    /\ FindCourse(store, last.call.courseId).steps
          # FindCourse(courses, last.call.courseId).steps

\* ---------------------------------------------------------------- C19
\* The step takes course n out of the local collection.
Removes(n) == n \in LocalIds /\ n \notin LocalIds'

\* The step starts a deleteCourseFromDb call for course n.
DeleteStarts(n) ==
    /\ Len(pending') = Len(pending) + 1
    /\ pending'[Len(pending')].kind = "delete"
    /\ pending'[Len(pending')].courseId = n

\* C19 as claimed: a course made by generation whose deletion has never been
\* asked for leaves the local collection only in the step that asks for its
\* deletion.
C19_GeneratedCourseStays ==
    [][ \A n \in Range(NewIds) :
           (Removes(n) /\ n \notin requested) => DeleteStarts(n) ]_vars

\* C19, amended: a course made by generation leaves the local collection only
\* in a step that asks for its deletion, in the resolution of a course fetch
\* whose list does not hold it, or in the rollback of a failed deletion whose
\* snapshot does not hold it; the last two leave the active identifier as it
\* is.  The rollback of a failed step update removes no course.
C19_GeneratedCourseRemovedOnlyBy ==
    [][ /\ \A n \in Range(NewIds) :
              Removes(n) =>
                 \/ DeleteStarts(n)
                 \/ /\ last'.op = "fetchResolve"
                    /\ n \notin IdsOf(last'.call.result)
                    /\ activeCourseId' = activeCourseId
                 \/ /\ last'.op = "deleteReject"
                    /\ n \notin IdsOf(last'.call.originalCourses)
                    /\ activeCourseId' = activeCourseId
        /\ last'.op = "updateReject" => LocalIds' = LocalIds ]_vars

\* The rollback of a failed deletion, asked for before the generation
\* finished, has taken the generated course out of the collection: the course
\* is stored, its deletion was never asked for, and it is still the active
\* identifier.
C19_Witness ==
    /\ last.op = "deleteReject"
    /\ \E n \in Range(NewIds) :
          /\ n \in StoreIds
          /\ n \notin LocalIds
          /\ n \notin requested
          /\ activeCourseId = n

\* ---------------------------------------------------------------- C20
\* C20: the step in which a deletion fails puts the snapshot of the collection
\* back and leaves the active identifier as it is.  So after a failed
\* deletion that no other call overlapped and during which the user changed
\* no selection: if the course was the active selection it is listed again
\* but the active identifier is null and no course is active; if it was not,
\* the active identifier is the one from before the deletion.
C20_RollbackKeepsSelectionCleared ==
    /\ [](( /\ last.op = "deleteReject"
            /\ last.call.solo
            /\ last.call.quiet ) =>
            /\ courses = last.call.pre
            /\ last.call.wasActive =>
                  /\ activeCourseId = Null
                  /\ activeCourse = NoCourse
                  /\ last.call.courseId \in IdsOf(last.call.pre) =>
                        last.call.courseId \in LocalIds
            /\ ~last.call.wasActive =>
                  activeCourseId = last.call.activeBefore)
    /\ [][ last'.op = "deleteReject" =>
              /\ activeCourseId' = activeCourseId
              /\ courses' = last'.call.originalCourses ]_vars

\* The deletion of the listed, active course has failed: the course is listed
\* again and nothing is selected.
C20_Witness ==
    /\ last.op = "deleteReject"
    /\ last.call.solo
    /\ last.call.quiet
    /\ last.call.wasActive
    /\ last.call.courseId \in LocalIds
    /\ activeCourseId = Null
    /\ last.call.activeBefore = last.call.courseId

====
